---- MODULE Spec2Model ----
(***************************************************************************)
(* Model of the payout planning engine of tron-shkeeper                    *)
(* (app/trc20wallet.py): Trc20Wallet's account ledger and PayoutStrategy's *)
(* check_payout_list, generate_steps, step, estimate_fee and               *)
(* seed_payout_fees.  Token and currency amounts are exact decimals in the *)
(* source; they are modelled as integers (units of the smallest amount).   *)
(***************************************************************************)
EXTENDS Integers, Sequences, FiniteSets, TLC

(* ------------------------------ bounds --------------------------------- *)
\* number of one-time accounts in the wallet
MaxAccounts == 3
\* largest token balance of one account
MaxTokens == 3
\* largest number of requests in a payout list
MaxPayouts == 2
\* largest requested amount of one payout
MaxAmount == 4
\* number of generate_steps runs on one planner
MaxPlanCalls == 2

\* requested amounts: negative, zero and positive ones
Amounts == (0 - 1) .. MaxAmount
\* config['TX_FEE']
TxFees == {1, 2}
\* account addresses, by position in the refreshed ledger
AddrNames == <<"A", "B", "C", "D", "E">>
\* payout destinations, by position in the payout list
DestNames == <<"X", "Y", "Z", "W">>

\* The seeding specification (SpecSeed) varies the native currency of the
\* accounts and the balance of the fee deposit account; it explores wallets
\* one account and one token smaller than the planning specification, with
\* positive requests only.
SeedAccounts == MaxAccounts - 1
SeedTokens == MaxTokens - 1
SeedAmounts == 1 .. (MaxAmount - 1)
\* native currency balances of the accounts
Currencies == 0 .. 2
\* native balance of the fee deposit account as read from the chain
DepositBalances == 0 .. 4

VARIABLES
    accounts,      \* wallet.accounts: sequence of Account records
    TX_FEE,        \* config['TX_FEE']
    payout_list,   \* PayoutStrategy.payout_list
    steps,         \* PayoutStrategy.steps: sequence of groups of transfers
    pc,            \* "new", "rejected", "ready", "generate_steps"
    i,             \* loop position of generate_steps (0 outside the loop)
    caller,        \* who called generate_steps: "user" or "estimate_fee"
    planCalls,     \* number of generate_steps runs started so far
    last,          \* the most recent call, its outcome, and whether generate_steps returned in it
    lastStep,      \* arguments, pre-state and outcome of the latest step()
    feeResult,     \* value returned by the latest estimate_fee
    seedCall,      \* deposit balance, transfers and result of the latest seed_payout_fees
    pool,          \* the calls handed to the ThreadPoolExecutor by executor.map, in order
    refresh,       \* refresh_accounts: how far it is and what it returned
    other          \* a second PayoutStrategy built on the same wallet

\* the state of the worker pools
workerVars == <<pool, refresh>>

vars == <<accounts, TX_FEE, payout_list, steps, pc, i, caller, planCalls,
          last, lastStep, feeResult, seedCall, pool, refresh, other>>

(* ------------------------------ helpers -------------------------------- *)
RECURSIVE SumSeq(_)
SumSeq(s) == IF s = << >> THEN 0 ELSE Head(s) + SumSeq(Tail(s))

\* sum([x.amount for x in s])
Amounts_of(s) == [k \in 1 .. Len(s) |-> s[k].amount]

\* the transfers of all groups, flattened in order
RECURSIVE Flatten(_)
Flatten(groups) == IF groups = << >> THEN << >> ELSE Head(groups) \o Flatten(Tail(groups))

Indices(s) == [k \in 1 .. Len(s) |-> k]

(* ------------------------------ Account -------------------------------- *)
Account(addr, tokens_, currency) == [addr |-> addr, tokens |-> tokens_, currency |-> currency]

(* ------------------------------ Trc20Wallet ---------------------------- *)
\* Trc20Wallet.tokens
tokens(accs) == SumSeq([k \in 1 .. Len(accs) |-> accs[k].tokens])

\* accounts with tokens, listed from the end of wallet.accounts
accounts_with_tokens_reversed(accs) ==
    LET idx == SelectSeq(Indices(accs), LAMBDA k : accs[k].tokens > 0)
    IN [j \in 1 .. Len(idx) |-> idx[Len(idx) + 1 - j]]

\* Trc20Wallet.accounts_with_tokens, as positions in wallet.accounts
\* (the property returns references to the live Account objects)
accounts_with_tokens(accs) == SelectSeq(Indices(accs), LAMBDA k : accs[k].tokens > 0)

\* refresh_accounts returns the accounts sorted by tokens, descending
SortedDesc(accs) == \A k \in 1 .. Len(accs) - 1 : accs[k].tokens >= accs[k + 1].tokens

(* ------------------------------ PayoutStrategy ------------------------- *)
\* a check_payout_list that compares each amount, not their total, with the balance
check_payout_list_each(accs, pl) ==
    LET payout_total == SumSeq(Amounts_of(pl)) IN
    IF payout_total = 0 THEN "EmptyPayout"
    ELSE IF \E k \in 1 .. Len(pl) : pl[k].amount > tokens(accs) THEN "InsufficientFunds"
    ELSE "ok"

\* check_payout_list: the outcome of the constructor's check
check_payout_list(accs, pl) ==
    LET payout_total == SumSeq(Amounts_of(pl)) IN
    IF payout_total = 0 THEN "EmptyPayout"
    ELSE IF payout_total > tokens(accs) THEN "InsufficientFunds"
    ELSE "ok"

Transfer(src, dst, amount, debug) ==
    [src |-> src, dst |-> dst, amount |-> amount, debug |-> debug]

\* an exact match that keeps the last account with tokens == amount
exact_match_last(accs, amount) ==
    LET hits == SelectSeq(accounts_with_tokens(accs), LAMBDA k : accs[k].tokens = amount)
    IN IF hits = << >> THEN 0 ELSE hits[Len(hits)]

\* step, tier 1: position of the first account with tokens == amount, or 0
exact_match(accs, amount) ==
    LET hits == SelectSeq(accounts_with_tokens(accs), LAMBDA k : accs[k].tokens = amount)
    IN IF hits = << >> THEN 0 ELSE Head(hits)

\* a full sweep that records the transfers and leaves the balances as they were
full_sweep_keep(accs, dst) ==
    LET idx == accounts_with_tokens(accs) IN
    [accounts |-> accs,
     transfers |-> [j \in 1 .. Len(idx) |->
                      Transfer(accs[idx[j]], dst, accs[idx[j]].tokens, "all to 1")]]

\* step, tier 2: every account with tokens gives all it has
full_sweep(accs, dst) ==
    LET idx == accounts_with_tokens(accs) IN
    [accounts |-> [k \in 1 .. Len(accs) |->
                      IF accs[k].tokens > 0 THEN [accs[k] EXCEPT !.tokens = 0] ELSE accs[k]],
     transfers |-> [j \in 1 .. Len(idx) |->
                      Transfer(accs[idx[j]], dst, accs[idx[j]].tokens, "all to 1")]]

\* a loop body that records the whole balance of a partially drained account
collect_whole(st, k, dst, amount) ==
    LET acc == st.accounts[k]
        to_collect == amount - st.collected_amount
    IN IF acc.tokens > to_collect
       THEN [accounts |-> [st.accounts EXCEPT ![k].tokens = acc.tokens - to_collect],
             transfers |-> Append(st.transfers, Transfer(acc, dst, acc.tokens, "acc partial")),
             collected_amount |-> st.collected_amount + to_collect]
       ELSE [accounts |-> [st.accounts EXCEPT ![k].tokens = 0],
             transfers |-> Append(st.transfers, Transfer(acc, dst, acc.tokens, "acc full")),
             collected_amount |-> st.collected_amount + acc.tokens]

\* a loop body that takes the missing amount from any account, whatever it holds
collect_overdraw(st, k, dst, amount) ==
    LET acc == st.accounts[k]
        to_collect == amount - st.collected_amount
    IN [accounts |-> [st.accounts EXCEPT ![k].tokens = acc.tokens - to_collect],
        transfers |-> Append(st.transfers, Transfer(acc, dst, to_collect, "acc partial")),
        collected_amount |-> st.collected_amount + to_collect]

\* a loop body that adds the whole balance of a partially drained account to
\* collected_amount
collect_overrun(st, k, dst, amount) ==
    LET acc == st.accounts[k]
        to_collect == amount - st.collected_amount
    IN IF acc.tokens > to_collect
       THEN [accounts |-> [st.accounts EXCEPT ![k].tokens = acc.tokens - to_collect],
             transfers |-> Append(st.transfers, Transfer(acc, dst, to_collect, "acc partial")),
             collected_amount |-> st.collected_amount + acc.tokens]
       ELSE [accounts |-> [st.accounts EXCEPT ![k].tokens = 0],
             transfers |-> Append(st.transfers, Transfer(acc, dst, acc.tokens, "acc full")),
             collected_amount |-> st.collected_amount + acc.tokens]

\* step, tier 3: the body of the greedy loop for one account, collected_amount < amount
collect(st, k, dst, amount) ==
    LET acc == st.accounts[k]
        to_collect == amount - st.collected_amount
    IN IF acc.tokens > to_collect
       THEN [accounts |-> [st.accounts EXCEPT ![k].tokens = acc.tokens - to_collect],
             transfers |-> Append(st.transfers, Transfer(acc, dst, to_collect, "acc partial")),
             collected_amount |-> st.collected_amount + to_collect]
       ELSE [accounts |-> [st.accounts EXCEPT ![k].tokens = 0],
             transfers |-> Append(st.transfers, Transfer(acc, dst, acc.tokens, "acc full")),
             collected_amount |-> st.collected_amount + acc.tokens]

\* step, tier 3: the greedy loop over the list accounts_with_tokens returned
\* when the loop started
RECURSIVE greedy(_, _, _, _, _)
greedy(st, idx, pos, dst, amount) ==
    IF pos > Len(idx)
    THEN IF st.collected_amount = amount
         THEN [result |-> "ok", accounts |-> st.accounts, ret |-> st.transfers]
         ELSE [result |-> "InsufficientFunds", accounts |-> st.accounts, ret |-> << >>]
    ELSE IF st.collected_amount = amount
    THEN [result |-> "ok", accounts |-> st.accounts, ret |-> st.transfers]
    ELSE IF st.collected_amount < amount
    THEN greedy(collect(st, idx[pos], dst, amount), idx, pos + 1, dst, amount)
    ELSE [result |-> "AllocationOverrun", accounts |-> st.accounts, ret |-> << >>]

\* step, tier 3: the largest collected_amount the greedy loop holds at the
\* start of an iteration or when the loop ends
RECURSIVE greedy_peak(_, _, _, _, _)
greedy_peak(st, idx, pos, dst, amount) ==
    IF pos > Len(idx) \/ st.collected_amount >= amount
    THEN st.collected_amount
    ELSE greedy_peak(collect(st, idx[pos], dst, amount), idx, pos + 1, dst, amount)

\* step(dst, amount): result, the accounts afterwards and the transfer list
\* returned (and appended to self.steps) when it does not raise
step(accs, dst, amount) ==
    IF amount <= 0
    THEN [result |-> "InvalidAmount", accounts |-> accs, ret |-> << >>]
    ELSE IF exact_match(accs, amount) # 0
    THEN LET k == exact_match(accs, amount) IN
         [result |-> "ok",
          accounts |-> [accs EXCEPT ![k].tokens = accs[k].tokens - amount],
          ret |-> << Transfer(accs[k], dst, amount, "1 to 1") >>]
    ELSE IF amount = tokens(accs)
    THEN LET r == full_sweep(accs, dst) IN
         [result |-> "ok", accounts |-> r.accounts, ret |-> r.transfers]
    ELSE greedy([accounts |-> accs, transfers |-> << >>, collected_amount |-> 0],
                accounts_with_tokens(accs), 1, dst, amount)

\* the fee added to TX_FEE for every transfer
activation_and_transfer_fee == 2

\* an estimate_fee that counts the groups, not the transfers in them
estimate_fee_groups(stps, tx_fee) ==
    LET accounts_num == Len(stps)
    IN [accounts_num |-> accounts_num,
        fee |-> accounts_num * (tx_fee + activation_and_transfer_fee)]

\* estimate_fee, once self.steps is not empty
estimate_fee(stps, tx_fee) ==
    LET accounts_num == Len(Flatten(stps))
    IN [accounts_num |-> accounts_num,
        fee |-> accounts_num * (tx_fee + activation_and_transfer_fee)]

\* a selection that also takes the sources holding exactly the fee
accounts_need_seeding_le(stps, tx_fee) ==
    LET srcs == [k \in 1 .. Len(Flatten(stps)) |-> Flatten(stps)[k].src]
    IN SelectSeq(srcs, LAMBDA acc : acc.currency <= tx_fee)

\* seed_payout_fees: the sources of the plan that lack currency for the fee
accounts_need_seeding(stps, tx_fee) ==
    LET srcs == [k \in 1 .. Len(Flatten(stps)) |-> Flatten(stps)[k].src]
    IN SelectSeq(srcs, LAMBDA acc : acc.currency < tx_fee)

\* seed_payout_fees: the precondition on the fee deposit account
seed_precondition(balance, need, tx_fee) ==
    LET need_currency == Len(need) * tx_fee
    IN IF balance < need_currency THEN "InsufficientSeedFunds" ELSE "ok"

\* seed_payout_fees.seed: the transfer built for one account, and what seed returns
\* (a dict on success, None when the transfer raised)
seed(acc, tx_fee, succeeds) ==
    [addr |-> acc.addr, amount |-> tx_fee - acc.currency, ok |-> succeeds]

(* ------------------------------ initial state -------------------------- *)
NoStep == [dst |-> "", amount |-> 0, pre |-> << >>, result |-> "none", ret |-> << >>]
NoFee == [accounts_num |-> 0 - 1, fee |-> 0 - 1]
NoSeed == [balance |-> 0, need |-> << >>, sent |-> << >>, result |-> "none"]
\* the wallet holds the snapshot an earlier refresh_accounts returned
Installed == [state |-> "installed", ret |-> << >>, outOfOrder |-> FALSE]
\* no second planner has been constructed
NoOther == [pc |-> "new", payout_list |-> << >>, steps |-> << >>, i |-> 0,
            matched |-> 0, transfers |-> << >>]

\* the wallets refresh_accounts can produce: at most n accounts, sorted by
\* tokens, descending
Wallets(n, toks, curs) ==
    UNION { { accs \in [1 .. m -> [addr : {"?"}, tokens : toks, currency : curs]] :
                SortedDesc(accs) } : m \in 1 .. n }

Named(accs) == [k \in 1 .. Len(accs) |-> [accs[k] EXCEPT !.addr = AddrNames[k]]]

Payout(dest, amount) == [dest |-> dest, amount |-> amount]

PayoutListsOf(amounts) ==
    UNION { { [k \in 1 .. n |-> Payout(DestNames[k], amts[k])] : amts \in [1 .. n -> amounts] } :
            n \in 0 .. MaxPayouts }

PayoutLists == PayoutListsOf(Amounts)

SeedPayoutLists == PayoutListsOf(SeedAmounts)

InitPlanner ==
    /\ TX_FEE \in TxFees
    /\ payout_list = << >>
    /\ steps = << >>
    /\ pc = "new"
    /\ i = 0
    /\ caller = "user"
    /\ planCalls = 0
    /\ last = [op |-> "none", result |-> "none", planned |-> FALSE]
    /\ lastStep = NoStep
    /\ feeResult = NoFee
    /\ seedCall = NoSeed
    /\ pool = << >>
    /\ refresh = Installed
    /\ other = NoOther

\* planning: the native currency of the accounts plays no part
Init ==
    /\ accounts \in { Named(accs) : accs \in Wallets(MaxAccounts, 0 .. MaxTokens, {0}) }
    /\ InitPlanner

\* seeding: every account holds tokens, with any native currency
InitSeed ==
    /\ accounts \in { Named(accs) : accs \in Wallets(SeedAccounts, 1 .. SeedTokens, Currencies) }
    /\ InitPlanner

(* ------------------------------ actions -------------------------------- *)
\* Each call records its own outcome in last / lastStep / feeResult / seedCall
\* and clears what an earlier call recorded there.

\* PayoutStrategy.__init__(wallet, payout_list)
ConstructWith(lists) ==
    /\ pc = "new"
    /\ \E pl \in lists :
         LET r == check_payout_list(accounts, pl) IN
         /\ payout_list' = pl
         /\ pc' = IF r = "ok" THEN "ready" ELSE "rejected"
         /\ last' = [op |-> "__init__", result |-> r, planned |-> FALSE]
    /\ UNCHANGED <<accounts, TX_FEE, steps, i, caller, planCalls, lastStep, feeResult, seedCall>>
    /\ UNCHANGED <<workerVars, other>>

Construct == ConstructWith(PayoutLists)

ConstructSeed == ConstructWith(SeedPayoutLists)

\* generate_steps() called on the planner
GenerateSteps ==
    /\ pc = "ready"
    /\ planCalls < MaxPlanCalls
    /\ pc' = "generate_steps"
    /\ i' = 1
    /\ caller' = "user"
    /\ planCalls' = planCalls + 1
    /\ last' = [op |-> "generate_steps", result |-> "running", planned |-> FALSE]
    /\ lastStep' = NoStep
    /\ feeResult' = NoFee
    /\ seedCall' = NoSeed
    /\ UNCHANGED <<accounts, TX_FEE, payout_list, steps>>
    /\ UNCHANGED <<workerVars, other>>

\* one iteration of the loop of generate_steps: self.step(dest, amount)
Step ==
    /\ pc = "generate_steps"
    /\ i <= Len(payout_list)
    /\ LET payout == payout_list[i]
           r == step(accounts, payout.dest, payout.amount)
       IN /\ accounts' = r.accounts
          /\ lastStep' = [dst |-> payout.dest, amount |-> payout.amount, pre |-> accounts,
                          result |-> r.result, ret |-> r.ret]
          /\ IF r.result = "ok"
             THEN /\ steps' = Append(steps, r.ret)
                  /\ i' = i + 1
                  /\ UNCHANGED <<pc, last, caller>>
             ELSE /\ steps' = steps
                  /\ i' = 0
                  /\ pc' = "ready"
                  /\ caller' = "user"
                  /\ last' = [last EXCEPT !.result = r.result]
    /\ UNCHANGED <<TX_FEE, payout_list, planCalls, feeResult, seedCall>>
    /\ UNCHANGED <<workerVars, other>>

\* the end of generate_steps: return self.steps (to the user or to estimate_fee,
\* which then computes the fee)
GenerateStepsReturn ==
    /\ pc = "generate_steps"
    /\ i > Len(payout_list)
    /\ pc' = "ready"
    /\ i' = 0
    /\ last' = [last EXCEPT !.result = "ok", !.planned = TRUE]
    /\ feeResult' = IF caller = "estimate_fee" THEN estimate_fee(steps, TX_FEE) ELSE NoFee
    /\ caller' = "user"
    /\ lastStep' = NoStep
    /\ UNCHANGED <<accounts, TX_FEE, payout_list, steps, planCalls, seedCall>>
    /\ UNCHANGED <<workerVars, other>>

\* estimate_fee() with no steps yet: it runs generate_steps first
EstimateFeePlan ==
    /\ pc = "ready"
    /\ steps = << >>
    /\ planCalls < MaxPlanCalls
    /\ pc' = "generate_steps"
    /\ i' = 1
    /\ caller' = "estimate_fee"
    /\ planCalls' = planCalls + 1
    /\ last' = [op |-> "estimate_fee", result |-> "running", planned |-> FALSE]
    /\ lastStep' = NoStep
    /\ feeResult' = NoFee
    /\ seedCall' = NoSeed
    /\ UNCHANGED <<accounts, TX_FEE, payout_list, steps>>
    /\ UNCHANGED <<workerVars, other>>

\* estimate_fee() on the retained steps
EstimateFee ==
    /\ pc = "ready"
    /\ steps # << >>
    /\ feeResult' = estimate_fee(steps, TX_FEE)
    /\ last' = [op |-> "estimate_fee", result |-> "ok", planned |-> FALSE]
    /\ lastStep' = NoStep
    /\ seedCall' = NoSeed
    /\ UNCHANGED <<accounts, TX_FEE, payout_list, steps, pc, i, caller, planCalls>>
    /\ UNCHANGED <<workerVars, other>>

\* seed_payout_fees(): the deposit balance is read from the chain, and each
\* seeding transfer either confirms or raises inside seed()
SeedPayoutFees ==
    /\ pc = "ready"
    /\ \E balance \in DepositBalances :
         LET need == accounts_need_seeding(steps, TX_FEE)
             r == seed_precondition(balance, need, TX_FEE)
         IN IF r = "ok"
            THEN \E succeeds \in [1 .. Len(need) -> BOOLEAN] :
                   /\ seedCall' = [balance |-> balance, need |-> need,
                                   sent |-> [k \in 1 .. Len(need) |-> seed(need[k], TX_FEE, succeeds[k])],
                                   result |-> "ok"]
                   /\ last' = [op |-> "seed_payout_fees", result |-> "ok", planned |-> FALSE]
            ELSE /\ seedCall' = [balance |-> balance, need |-> need, sent |-> << >>, result |-> r]
                 /\ last' = [op |-> "seed_payout_fees", result |-> r, planned |-> FALSE]
    /\ lastStep' = NoStep
    /\ feeResult' = NoFee
    /\ UNCHANGED <<accounts, TX_FEE, payout_list, steps, pc, i, caller, planCalls>>
    /\ UNCHANGED <<workerVars, other>>

Next ==
    \/ Construct
    \/ GenerateSteps
    \/ Step
    \/ GenerateStepsReturn
    \/ EstimateFeePlan
    \/ EstimateFee

Spec == Init /\ [][Next]_vars

NextSeed ==
    \/ ConstructSeed
    \/ GenerateSteps
    \/ Step
    \/ GenerateStepsReturn
    \/ SeedPayoutFees

SpecSeed == InitSeed /\ [][NextSeed]_vars


\* step(dst, amount) called on the planner directly, with any amount
DirectStep ==
    /\ pc = "ready"
    /\ planCalls < MaxPlanCalls
    /\ \E amount \in Amounts :
         LET r == step(accounts, DestNames[1], amount)
         IN /\ accounts' = r.accounts
            /\ lastStep' = [dst |-> DestNames[1], amount |-> amount, pre |-> accounts,
                            result |-> r.result, ret |-> r.ret]
            /\ steps' = IF r.result = "ok" THEN Append(steps, r.ret) ELSE steps
            /\ last' = [op |-> "step", result |-> r.result, planned |-> FALSE]
    /\ planCalls' = planCalls + 1
    /\ feeResult' = NoFee
    /\ seedCall' = NoSeed
    /\ UNCHANGED <<TX_FEE, payout_list, pc, i, caller>>
    /\ UNCHANGED <<workerVars, other>>

\* planners built for a single request
StepPayoutLists == { <<Payout(DestNames[1], amount)>> : amount \in 1 .. MaxAmount }

ConstructStep == ConstructWith(StepPayoutLists)

NextStep ==
    \/ ConstructStep
    \/ DirectStep

\* a planner on which step() is called with any sequence of amounts
SpecStep == Init /\ [][NextStep]_vars

(* ------------------------------ refresh_accounts ----------------------- *)
\* config['CONCURRENT_MAX_RETRIES']
CONCURRENT_MAX_RETRIES == 2
\* config['CONCURRENT_MAX_WORKERS']
CONCURRENT_MAX_WORKERS == 2

\* refresh_accounts fetches wallets of up to MaxAccounts keys, with token
\* balances one smaller than the planning specification
RefreshTokens == 0 .. (MaxTokens - 1)

NoAccount == Account("", 0, 0)

\* one call of get(addr) handed to the executor
Fetch(addr) ==
    [addr |-> addr, status |-> "queued", retries |-> 0, attempts |-> 0, account |-> NoAccount]

\* refresh_accounts has not been called
Idle == [state |-> "idle", ret |-> << >>, outOfOrder |-> FALSE]

\* a loop condition of get() that allows one more attempt
may_retry_le(retries) == retries <= CONCURRENT_MAX_RETRIES
\* the loop condition of get(addr)
may_retry(retries) == retries < CONCURRENT_MAX_RETRIES

Running(p) == { k \in 1 .. Len(p) : p[k].status = "running" }

\* the executor runs the calls in the order they were submitted, at most
\* max_workers of them at a time
may_start(p, k) ==
    /\ p[k].status = "queued"
    /\ \A j \in 1 .. (k - 1) : p[j].status # "queued"
    /\ Cardinality(Running(p)) < CONCURRENT_MAX_WORKERS

Resolved(item) == item.status \in {"done", "raised", "cancelled"}

\* some call submitted earlier than k has not come back yet
Overtakes(p, k) == \E j \in 1 .. (k - 1) : ~Resolved(p[j])

\* list(executor.map(get, public_keys)) comes back once every call has returned
all_done(p) == \A k \in 1 .. Len(p) : p[k].status = "done"

\* list(...) re-raises the exception of the first call, in order of
\* submission, that raised; leaving the with block waits for the running calls
first_raised(p) ==
    /\ \E k \in 1 .. Len(p) :
         /\ p[k].status = "raised"
         /\ \A j \in 1 .. (k - 1) : p[j].status = "done"
    /\ Running(p) = {}

\* a in its place in the descending list s, after the accounts with as many tokens
RECURSIVE insert_desc(_, _)
insert_desc(s, a) ==
    IF s = << >> THEN <<a>>
    ELSE IF Head(s).tokens < a.tokens THEN <<a>> \o s
    ELSE <<Head(s)>> \o insert_desc(Tail(s), a)

\* a sort of the accounts by tokens, smallest first
RECURSIVE sort_ascending(_)
sort_ascending(accs) ==
    IF accs = << >> THEN << >>
    ELSE LET rest == sort_ascending(Tail(accs))
             a == Head(accs)
             low == SelectSeq(rest, LAMBDA x : x.tokens < a.tokens)
             high == SelectSeq(rest, LAMBDA x : x.tokens >= a.tokens)
         IN low \o <<a>> \o high
\* accounts.sort(key=lambda account: account.tokens, reverse=True): a stable sort
RECURSIVE sort_by_tokens(_)
sort_by_tokens(accs) ==
    IF accs = << >> THEN << >>
    ELSE insert_desc(sort_by_tokens(SubSeq(accs, 1, Len(accs) - 1)), accs[Len(accs)])

\* no wallet yet: Trc20Wallet(symbol) is about to be constructed
InitRefresh ==
    /\ accounts = << >>
    /\ TX_FEE \in TxFees
    /\ payout_list = << >>
    /\ steps = << >>
    /\ pc = "new"
    /\ i = 0
    /\ caller = "user"
    /\ planCalls = 0
    /\ last = [op |-> "none", result |-> "none", planned |-> FALSE]
    /\ lastStep = NoStep
    /\ feeResult = NoFee
    /\ seedCall = NoSeed
    /\ pool = << >>
    /\ refresh = Idle
    /\ other = NoOther

plannerVars == <<TX_FEE, payout_list, steps, pc, i, caller, planCalls, last, lastStep,
                 feeResult, seedCall, other>>

\* Trc20Wallet.__init__ calls refresh_accounts: the keys are read from the
\* database and every get(addr) is submitted to the executor
RefreshBegin ==
    /\ refresh.state = "idle"
    /\ \E n \in 0 .. MaxAccounts :
         pool' = [k \in 1 .. n |-> Fetch(AddrNames[k])]
    /\ refresh' = [refresh EXCEPT !.state = "running"]
    /\ UNCHANGED accounts
    /\ UNCHANGED plannerVars

\* a worker of the pool takes the next call
FetchStart(k) ==
    /\ refresh.state = "running"
    /\ may_start(pool, k)
    /\ pool' = [pool EXCEPT ![k].status = "running"]
    /\ UNCHANGED <<accounts, refresh>>
    /\ UNCHANGED plannerVars

\* an attempt of get(addr) reads the balances and returns the Account; an
\* address the chain does not know (AddressNotFound) has currency 0
FetchReturn(k) ==
    /\ refresh.state = "running"
    /\ pool[k].status = "running"
    /\ may_retry(pool[k].retries)
    /\ \E tks \in RefreshTokens, found \in BOOLEAN :
         pool' = [pool EXCEPT ![k].status = "done",
                              ![k].attempts = @ + 1,
                              ![k].account = Account(pool[k].addr, tks,
                                                     IF found THEN 1 ELSE 0)]
    /\ refresh' = [refresh EXCEPT !.outOfOrder = @ \/ Overtakes(pool, k)]
    /\ UNCHANGED accounts
    /\ UNCHANGED plannerVars

\* an attempt of get(addr) raises tronpy.exceptions.UnknownError: retries += 1
FetchUnknownError(k) ==
    /\ refresh.state = "running"
    /\ pool[k].status = "running"
    /\ may_retry(pool[k].retries)
    /\ pool' = [pool EXCEPT ![k].retries = @ + 1, ![k].attempts = @ + 1]
    /\ UNCHANGED <<accounts, refresh>>
    /\ UNCHANGED plannerVars

\* the loop of get(addr) ends: raise Exception('CONCURRENT_MAX_RETRIES exeeded ...')
FetchExhausted(k) ==
    /\ refresh.state = "running"
    /\ pool[k].status = "running"
    /\ ~may_retry(pool[k].retries)
    /\ pool' = [pool EXCEPT ![k].status = "raised"]
    /\ refresh' = [refresh EXCEPT !.outOfOrder = @ \/ Overtakes(pool, k)]
    /\ UNCHANGED accounts
    /\ UNCHANGED plannerVars

\* an attempt of get(addr) raises an exception other than UnknownError,
\* which get does not catch
FetchOtherError(k) ==
    /\ refresh.state = "running"
    /\ pool[k].status = "running"
    /\ may_retry(pool[k].retries)
    /\ pool' = [pool EXCEPT ![k].status = "raised", ![k].attempts = @ + 1]
    /\ refresh' = [refresh EXCEPT !.outOfOrder = @ \/ Overtakes(pool, k)]
    /\ UNCHANGED accounts
    /\ UNCHANGED plannerVars

\* every call has returned: the list is sorted and returned, and __init__
\* assigns it to self.accounts
RefreshReturn ==
    /\ refresh.state = "running"
    /\ all_done(pool)
    /\ LET fetched == [k \in 1 .. Len(pool) |-> pool[k].account]
           sorted == sort_by_tokens(fetched)
       IN /\ refresh' = [refresh EXCEPT !.state = "returned", !.ret = sorted]
          /\ accounts' = sorted
    /\ UNCHANGED pool
    /\ UNCHANGED plannerVars

\* the exception of a call leaves refresh_accounts and __init__: the calls
\* not started yet are cancelled, nothing is returned and no wallet exists
RefreshRaise ==
    /\ refresh.state = "running"
    /\ first_raised(pool)
    /\ pool' = [k \in 1 .. Len(pool) |->
                  IF pool[k].status = "queued"
                  THEN [pool[k] EXCEPT !.status = "cancelled"]
                  ELSE pool[k]]
    /\ refresh' = [refresh EXCEPT !.state = "raised"]
    /\ UNCHANGED accounts
    /\ UNCHANGED plannerVars

NextRefresh ==
    \/ RefreshBegin
    \/ \E k \in 1 .. Len(pool) :
         \/ FetchStart(k)
         \/ FetchReturn(k)
         \/ FetchUnknownError(k)
         \/ FetchExhausted(k)
         \/ FetchOtherError(k)
    \/ RefreshReturn
    \/ RefreshRaise

\* the construction of a wallet: one refresh_accounts with its pool of workers
SpecRefresh == InitRefresh /\ [][NextRefresh]_vars

(* ------------------------------ seeding workers ------------------------ *)
\* one call of seed(acc) handed to the executor
Seeding(acc) == [acc |-> acc, status |-> "queued"]

\* seed(acc) has returned: it sent the transfer or caught its exception
Seeded(item) == item.status \in {"sent", "failed"}

\* the except branch of seed(acc) ends without a return statement
None == [addr |-> "", ok |-> FALSE]

\* what seed(acc) returns: {'addr': acc, 'txid': ...}, or None when it raised
seed_return(attempt) ==
    IF attempt.ok THEN [addr |-> attempt.addr, ok |-> TRUE] ELSE None

\* the list seed_payout_fees returns
seed_returned == [k \in 1 .. Len(seedCall.sent) |-> seed_return(seedCall.sent[k])]

\* generate_steps() called once on the planner, and not while seed_payout_fees runs
GenerateStepsOnce ==
    /\ planCalls = 0
    /\ seedCall.result # "running"
    /\ GenerateSteps

\* seed_payout_fees() reads the deposit balance, lists the sources to seed,
\* checks the balance and submits every seed(acc) to the executor
SeedBegin ==
    /\ pc = "ready"
    /\ seedCall.result # "running"
    /\ \E balance \in DepositBalances :
         LET need == accounts_need_seeding(steps, TX_FEE)
             r == seed_precondition(balance, need, TX_FEE)
         IN IF r = "ok"
            THEN /\ seedCall' = [balance |-> balance, need |-> need, sent |-> << >>,
                                 result |-> "running"]
                 /\ pool' = [k \in 1 .. Len(need) |-> Seeding(need[k])]
                 /\ last' = [op |-> "seed_payout_fees", result |-> "running", planned |-> FALSE]
            ELSE /\ seedCall' = [balance |-> balance, need |-> need, sent |-> << >>,
                                 result |-> r]
                 /\ pool' = << >>
                 /\ last' = [op |-> "seed_payout_fees", result |-> r, planned |-> FALSE]
    /\ lastStep' = NoStep
    /\ feeResult' = NoFee
    /\ UNCHANGED <<accounts, TX_FEE, payout_list, steps, pc, i, caller, planCalls, refresh,
                   other>>

seedVars == <<accounts, TX_FEE, payout_list, steps, pc, i, caller, planCalls, last,
              lastStep, feeResult, seedCall, refresh, other>>

\* a worker of the pool takes the next seed(acc)
SeedStart(k) ==
    /\ seedCall.result = "running"
    /\ may_start(pool, k)
    /\ pool' = [pool EXCEPT ![k].status = "running"]
    /\ UNCHANGED seedVars

\* the transfer to acc is built, signed, broadcast and confirmed
SeedSent(k) ==
    /\ seedCall.result = "running"
    /\ pool[k].status = "running"
    /\ pool' = [pool EXCEPT ![k].status = "sent"]
    /\ UNCHANGED seedVars

\* building, signing, broadcasting or waiting raises: seed logs the exception
SeedFailed(k) ==
    /\ seedCall.result = "running"
    /\ pool[k].status = "running"
    /\ pool' = [pool EXCEPT ![k].status = "failed"]
    /\ UNCHANGED seedVars

\* every seed(acc) has returned: list(executor.map(seed, accounts_need_seeding))
SeedReturn ==
    /\ seedCall.result = "running"
    /\ \A k \in 1 .. Len(pool) : Seeded(pool[k])
    /\ seedCall' = [seedCall EXCEPT
                      !.sent = [k \in 1 .. Len(pool) |->
                                  seed(pool[k].acc, TX_FEE, pool[k].status = "sent")],
                      !.result = "ok"]
    /\ last' = [op |-> "seed_payout_fees", result |-> "ok", planned |-> FALSE]
    /\ pool' = << >>
    /\ UNCHANGED <<accounts, TX_FEE, payout_list, steps, pc, i, caller, planCalls,
                   lastStep, feeResult, refresh, other>>

NextSeedWorkers ==
    \/ ConstructSeed
    \/ GenerateStepsOnce
    \/ Step
    \/ GenerateStepsReturn
    \/ SeedBegin
    \/ \E k \in 1 .. Len(pool) :
         \/ SeedStart(k)
         \/ SeedSent(k)
         \/ SeedFailed(k)
    \/ SeedReturn

\* one plan, seeded by the workers of the pool in any interleaving
SpecSeedWorkers == InitSeed /\ [][NextSeedWorkers]_vars

(* ------------------------------ two planners -------------------------- *)
\* The second planner is built for a single positive request on the wallet
\* of the first; the two run in different threads.  A thread can be
\* preempted inside step(); the model lets that happen to the second
\* planner between the test acc.tokens == amount and acc.tokens -= amount.
OtherPayoutLists == { <<Payout(DestNames[MaxPayouts + 1], amount)>> : amount \in SeedAmounts }

\* wallets of the size the seeding specification explores, currency left out
InitTwo ==
    /\ accounts \in { Named(accs) : accs \in Wallets(SeedAccounts, 1 .. SeedTokens, {0}) }
    /\ InitPlanner

firstVars == <<TX_FEE, payout_list, steps, pc, i, caller, planCalls, last, lastStep,
               feeResult, seedCall, pool, refresh>>

\* PayoutStrategy.__init__(wallet, payout_list) of the second planner
OtherConstruct ==
    /\ other.pc = "new"
    /\ \E pl \in OtherPayoutLists :
         other' = [other EXCEPT !.payout_list = pl,
                                !.pc = IF check_payout_list(accounts, pl) = "ok"
                                       THEN "ready" ELSE "rejected"]
    /\ UNCHANGED accounts
    /\ UNCHANGED firstVars

\* generate_steps() called on the second planner
OtherGenerateSteps ==
    /\ other.pc = "ready"
    /\ other' = [other EXCEPT !.pc = "generate_steps", !.i = 1]
    /\ UNCHANGED accounts
    /\ UNCHANGED firstVars

\* one step(dst, amount) of the second planner, run without preemption
OtherStep ==
    /\ other.pc = "generate_steps"
    /\ other.i <= Len(other.payout_list)
    /\ LET payout == other.payout_list[other.i]
           r == step(accounts, payout.dest, payout.amount)
       IN /\ accounts' = r.accounts
          /\ other' = IF r.result = "ok"
                      THEN [other EXCEPT !.steps = Append(@, r.ret), !.i = @ + 1]
                      ELSE [other EXCEPT !.pc = "raised", !.i = 0]
    /\ UNCHANGED firstVars

\* step() of the second planner finds acc.tokens == amount and builds the
\* transfer; its thread is preempted before acc.tokens -= amount
OtherMatch ==
    /\ other.pc = "generate_steps"
    /\ other.i <= Len(other.payout_list)
    /\ LET payout == other.payout_list[other.i]
           k == exact_match(accounts, payout.amount)
       IN /\ payout.amount > 0
          /\ k # 0
          /\ other' = [other EXCEPT
                         !.pc = "matched",
                         !.matched = k,
                         !.transfers = << Transfer(accounts[k], payout.dest,
                                                   payout.amount, "1 to 1") >>]
    /\ UNCHANGED accounts
    /\ UNCHANGED firstVars

\* the thread resumes: acc.tokens -= amount; self.steps.append(transfers)
OtherDebit ==
    /\ other.pc = "matched"
    /\ accounts' = [accounts EXCEPT
                      ![other.matched].tokens = @ - other.payout_list[other.i].amount]
    /\ other' = [other EXCEPT !.pc = "generate_steps",
                              !.steps = Append(@, other.transfers),
                              !.i = @ + 1,
                              !.matched = 0,
                              !.transfers = << >>]
    /\ UNCHANGED firstVars

\* generate_steps of the second planner returns self.steps
OtherReturn ==
    /\ other.pc = "generate_steps"
    /\ other.i > Len(other.payout_list)
    /\ other' = [other EXCEPT !.pc = "planned", !.i = 0]
    /\ UNCHANGED accounts
    /\ UNCHANGED firstVars

NextTwo ==
    \/ ConstructSeed
    \/ GenerateStepsOnce
    \/ Step
    \/ GenerateStepsReturn
    \/ OtherConstruct
    \/ OtherGenerateSteps
    \/ OtherStep
    \/ OtherMatch
    \/ OtherDebit
    \/ OtherReturn

\* two planners on one wallet, each planning once
SpecTwo == InitTwo /\ [][NextTwo]_vars

(* ------------------------------ properties ----------------------------- *)
\* generate_steps has returned normally in the latest call
PlanReturned == pc = "ready" /\ last.planned

GroupSum(group) == SumSeq(Amounts_of(group))

PayoutTotal == SumSeq(Amounts_of(payout_list))

\* C1: when generate_steps returns, the amounts of the transfers of group i
\* add up to the amount of request i, for every request i; and every
\* transfer list step() returns adds up to the amount it was called with.
C1_GroupSums ==
    /\ PlanReturned =>
         \A k \in 1 .. Len(payout_list) :
            /\ k <= Len(steps)
            /\ GroupSum(steps[k]) = payout_list[k].amount
    /\ lastStep.result = "ok" => GroupSum(lastStep.ret) = lastStep.amount

\* a returned plan with a greedy group: one account drained, the next one
\* drained in part
C1_Witness ==
    /\ PlanReturned
    /\ \E g \in 1 .. Len(steps) :
         /\ Len(steps[g]) = 2
         /\ steps[g][1].debug = "acc full"
         /\ steps[g][2].debug = "acc partial"

\* C2: every recorded transfer has a positive amount that is at most the
\* tokens its source held right before the allocation (the copy kept in src,
\* which is the balance of that account in the ledger before the step), and
\* no account ever holds a negative token balance.
C2_WithinBalance ==
    /\ \A g \in 1 .. Len(steps) : \A t \in 1 .. Len(steps[g]) :
          /\ steps[g][t].amount > 0
          /\ steps[g][t].amount <= steps[g][t].src.tokens
    /\ lastStep.result = "ok" =>
          \A t \in 1 .. Len(lastStep.ret) :
             \E k \in 1 .. Len(lastStep.pre) :
                /\ lastStep.pre[k].addr = lastStep.ret[t].src.addr
                /\ lastStep.pre[k].tokens = lastStep.ret[t].src.tokens
                /\ lastStep.ret[t].amount <= lastStep.pre[k].tokens
                /\ accounts[k].tokens = lastStep.pre[k].tokens - lastStep.ret[t].amount
    /\ \A k \in 1 .. Len(accounts) : accounts[k].tokens >= 0

\* a step that drained an account in part: tokens are left on it
C2_Witness ==
    /\ lastStep.result = "ok"
    /\ \E t \in 1 .. Len(lastStep.ret) :
          /\ lastStep.ret[t].debug = "acc partial"
          /\ lastStep.ret[t].amount < lastStep.ret[t].src.tokens

\* C3: constructing a planner whose amounts add up to more than the tokens
\* of the wallet fails with InsufficientFunds, leaves every account as it
\* was, and no planning step ever runs on the rejected planner.
C3_OverBudgetRejected ==
    /\ [][(pc = "new" /\ pc' # "new" /\ SumSeq(Amounts_of(payout_list')) > tokens(accounts))
            => (/\ pc' = "rejected"
                /\ last'.result = "InsufficientFunds"
                /\ accounts' = accounts
                /\ steps' = << >>)]_vars
    /\ [](pc = "rejected" => (steps = << >> /\ planCalls = 0 /\ lastStep = NoStep))

\* a rejected planner whose single amounts are each within the balance
C3_Witness ==
    /\ pc = "rejected"
    /\ last.result = "InsufficientFunds"
    /\ PayoutTotal > tokens(accounts)
    /\ \A k \in 1 .. Len(payout_list) : payout_list[k].amount <= tokens(accounts)

\* C4: constructing a planner whose amounts add up to zero or less fails
\* with EmptyPayout.  (Stated as claimed; the constructor rejects a total of
\* zero only, so a negative total is accepted.)
C4_NonPositiveRejected ==
    (last.op = "__init__" /\ PayoutTotal <= 0) =>
        (last.result = "EmptyPayout" /\ pc = "rejected")

\* the part of C4 the constructor does enforce: a total of zero is rejected
C4_ZeroRejected ==
    (last.op = "__init__" /\ PayoutTotal = 0) =>
        (last.result = "EmptyPayout" /\ pc = "rejected")

\* position of the first account of accs that holds exactly amount tokens
FirstWith(accs, amount) ==
    CHOOSE k \in 1 .. Len(accs) :
        /\ accs[k].tokens = amount
        /\ \A j \in 1 .. k - 1 : accs[j].tokens # amount

\* C5: a step() for a positive amount that some account holds exactly
\* returns one transfer, tagged '1 to 1', of the whole amount, from the first
\* such account of the ledger; that account is left with 0 tokens and every
\* other account is as it was.
C5_ExactMatch ==
    (/\ lastStep.result # "none"
     /\ lastStep.amount > 0
     /\ \E k \in 1 .. Len(lastStep.pre) : lastStep.pre[k].tokens = lastStep.amount)
    => LET k == FirstWith(lastStep.pre, lastStep.amount) IN
       /\ lastStep.result = "ok"
       /\ Len(lastStep.ret) = 1
       /\ lastStep.ret[1].debug = "1 to 1"
       /\ lastStep.ret[1].amount = lastStep.amount
       /\ lastStep.ret[1].dst = lastStep.dst
       /\ lastStep.ret[1].src.addr = lastStep.pre[k].addr
       /\ steps[Len(steps)] = lastStep.ret
       /\ accounts[k].tokens = 0
       /\ \A j \in 1 .. Len(accounts) : j # k => accounts[j] = lastStep.pre[j]

\* an exact match on a ledger where two accounts hold the amount and other
\* accounts hold tokens too
C5_Witness ==
    /\ lastStep.result = "ok"
    /\ Cardinality({k \in 1 .. Len(lastStep.pre) : lastStep.pre[k].tokens = lastStep.amount}) >= 2
    /\ \E k \in 1 .. Len(lastStep.pre) :
          lastStep.pre[k].tokens > 0 /\ lastStep.pre[k].tokens # lastStep.amount
    /\ lastStep.ret[1].debug = "1 to 1"

\* the accounts of accs that hold tokens
NonZero(accs) == {k \in 1 .. Len(accs) : accs[k].tokens # 0}

\* C6: a step() for the sum of the balances of all accounts with tokens
\* returns a group with exactly one transfer per such account, each of the
\* whole balance of its account, and leaves the ledger with 0 tokens.  A
\* request of 0 on an empty ledger raises InvalidAmount before the tiers and
\* returns no group; the ledger total is 0 there as well.
C6_FullSweep ==
    (lastStep.result # "none" /\ lastStep.amount = tokens(lastStep.pre))
    => /\ lastStep.amount > 0 => lastStep.result = "ok"
       /\ lastStep.result = "ok" =>
            /\ Len(lastStep.ret) = Cardinality(NonZero(lastStep.pre))
            /\ \A k \in NonZero(lastStep.pre) :
                  \E t \in 1 .. Len(lastStep.ret) :
                     /\ lastStep.ret[t].src.addr = lastStep.pre[k].addr
                     /\ lastStep.ret[t].amount = lastStep.pre[k].tokens
                     /\ lastStep.ret[t].dst = lastStep.dst
            /\ steps[Len(steps)] = lastStep.ret
       /\ tokens(accounts) = 0
       /\ \A k \in 1 .. Len(accounts) : accounts[k].tokens = 0

\* a sweep of two or more accounts
C6_Witness ==
    /\ lastStep.result = "ok"
    /\ lastStep.amount = tokens(lastStep.pre)
    /\ Len(lastStep.ret) >= 2
    /\ \A t \in 1 .. Len(lastStep.ret) : lastStep.ret[t].debug = "all to 1"

\* C7: whenever generate_steps returns, self.steps holds exactly one group
\* per request, in request order, each transfer of group i addressed to the
\* destination of request i.  (Stated as claimed; a second generate_steps on
\* the same planner appends a second set of groups to the first.)
C7_OneGroupPerRequest ==
    PlanReturned =>
        /\ Len(steps) = Len(payout_list)
        /\ \A g \in 1 .. Len(steps) : \A t \in 1 .. Len(steps[g]) :
              g <= Len(payout_list) /\ steps[g][t].dst = payout_list[g].dest

\* the errors step() raises
PlanErrors == {"InvalidAmount", "InsufficientFunds", "AllocationOverrun"}

\* C8: after generate_steps has failed on a request, the planner retains no
\* groups of the earlier requests, so that estimate_fee and seed_payout_fees
\* have no partial plan to work on.  (Stated as claimed; the groups appended
\* before the failure stay in self.steps.)
C8_NoPartialPlan ==
    (pc = "ready" /\ last.result \in PlanErrors) => steps = << >>

\* the consequence C8 rules out: estimate_fee returns a fee for a planner
\* whose steps hold fewer groups than there are requests
C8_NoFeeForPartialPlan ==
    (last.op = "estimate_fee" /\ last.result = "ok") => Len(steps) >= Len(payout_list)

\* the number of transfers of a plan, counted group by group
TransferCount(stps) == SumSeq([g \in 1 .. Len(stps) |-> Len(stps[g])])

\* values an activation fee could be configured to
ActivationFees == 0 .. 3

Sources == {k \in 1 .. Len(accounts) :
               \E g \in 1 .. Len(steps) : \E t \in 1 .. Len(steps[g]) :
                   steps[g][t].src.addr = accounts[k].addr}

\* the sources whose native currency is below the fee threshold
UnderFunded == {k \in Sources : accounts[k].currency < TX_FEE}

\* the sum of TX_FEE - currency over the under-funded sources
Shortfalls ==
    SumSeq([k \in 1 .. Len(accounts) |->
               IF k \in UnderFunded THEN TX_FEE - accounts[k].currency ELSE 0])

\* C10: seed_payout_fees sends no seeding transfer to an account whose native
\* currency is at or above TX_FEE, and when the balance of the fee deposit
\* account is less than the sum of the shortfalls it raises with no seeding
\* transfer built, signed or broadcast.
C10_SeedSafety ==
    seedCall.result # "none" =>
        /\ \A t \in 1 .. Len(seedCall.sent) :
              /\ seedCall.sent[t].amount > 0
              /\ \E k \in 1 .. Len(accounts) :
                    /\ accounts[k].addr = seedCall.sent[t].addr
                    /\ accounts[k].currency < TX_FEE
        /\ seedCall.balance < Shortfalls =>
              (seedCall.result = "InsufficientSeedFunds" /\ seedCall.sent = << >>)
        /\ seedCall.result = "InsufficientSeedFunds" => seedCall.sent = << >>

\* a seeding of a plan with two sources, one below the threshold and seeded,
\* the other at or above it and left alone
C10_Witness ==
    /\ seedCall.result = "ok"
    /\ Len(seedCall.sent) >= 1
    /\ \E k \in Sources :
          /\ accounts[k].currency >= TX_FEE
          /\ \A t \in 1 .. Len(seedCall.sent) : seedCall.sent[t].addr # accounts[k].addr

\* a seeding refused for a deposit balance below the sum of the shortfalls
C10_WitnessRefused ==
    /\ seedCall.result = "InsufficientSeedFunds"
    /\ seedCall.balance > 0
    /\ seedCall.balance < Shortfalls

\* C11: one seed_payout_fees call sends at most one seeding transfer to an
\* address.  (Stated as claimed; accounts_need_seeding holds one entry per
\* transfer of the plan, so a source of several transfers is seeded several
\* times.)
C11_OneSeedPerAddress ==
    \A t1, t2 \in 1 .. Len(seedCall.sent) :
        t1 # t2 => seedCall.sent[t1].addr # seedCall.sent[t2].addr

\* the sum of TX_FEE - currency over the entries of accounts_need_seeding
NeedShortfalls ==
    SumSeq([k \in 1 .. Len(seedCall.need) |-> TX_FEE - seedCall.need[k].currency])

\* C20: seed_payout_fees raises when the balance of the fee deposit account
\* is less than the sum of the shortfalls, and sends the transfers whenever
\* the balance is at least that sum.  (Stated as claimed; the code compares
\* the balance with TX_FEE times the number of entries.)
C20_ShortfallPrecondition ==
    seedCall.result # "none" =>
        /\ seedCall.balance < NeedShortfalls => seedCall.result = "InsufficientSeedFunds"
        /\ seedCall.balance >= NeedShortfalls =>
              (seedCall.result = "ok" /\ Len(seedCall.sent) = Len(seedCall.need))

\* the half of C20 the code meets: a balance below the sum of the shortfalls
\* is refused
C20_BelowShortfallsRefused ==
    (seedCall.result # "none" /\ seedCall.balance < NeedShortfalls)
        => seedCall.result = "InsufficientSeedFunds"

\* every request of the payout list asks for a positive amount
AllPositive == \A k \in 1 .. Len(payout_list) : payout_list[k].amount > 0

\* C16: on a planner that was constructed, whose requests are all positive,
\* the planning session (the first generate_steps run) raises on no request,
\* and when it ends every request has its group.
C16_PlanCompletes ==
    (pc \in {"ready", "generate_steps"} /\ planCalls = 1 /\ AllPositive) =>
        /\ lastStep.result \in {"none", "ok"}
        /\ last.result \notin PlanErrors
        /\ pc = "ready" => Len(steps) = Len(payout_list)

\* a finished session of two positive requests that used up every token, the
\* second request served from what the first left
C16_Witness ==
    /\ pc = "ready"
    /\ planCalls = 1
    /\ AllPositive
    /\ Len(payout_list) = 2
    /\ Len(steps) = 2
    /\ tokens(accounts) = 0
    /\ \E t \in 1 .. Len(steps[1]) : steps[1][t].debug = "acc partial"

\* the step() just made went through the greedy loop
InGreedy ==
    /\ lastStep.result # "none"
    /\ lastStep.amount > 0
    /\ exact_match(lastStep.pre, lastStep.amount) = 0
    /\ lastStep.amount # tokens(lastStep.pre)

\* C17: no step() raises 'Collected too much', and in the greedy loop
\* collected_amount never exceeds the requested amount.
C17_NoOverrun ==
    /\ lastStep.result # "AllocationOverrun"
    /\ last.result # "AllocationOverrun"
    /\ InGreedy =>
          greedy_peak([accounts |-> lastStep.pre, transfers |-> << >>, collected_amount |-> 0],
                      accounts_with_tokens(lastStep.pre), 1, lastStep.dst, lastStep.amount)
             <= lastStep.amount

\* a greedy step that took part of an account while accounts with tokens
\* were still to come in the loop
C17_Witness ==
    /\ InGreedy
    /\ lastStep.result = "ok"
    /\ lastStep.ret[Len(lastStep.ret)].debug = "acc partial"
    /\ \E k \in 1 .. Len(lastStep.pre) :
          /\ lastStep.pre[k].tokens > 0
          /\ \A t \in 1 .. Len(lastStep.ret) : lastStep.ret[t].src.addr # lastStep.pre[k].addr

\* the sum of the amounts of all transfers of a plan
PlanSum(stps) == SumSeq(Amounts_of(Flatten(stps)))

\* C18: the tokens of the ledger plus the amounts of the recorded transfers
\* stay what they were: no call takes tokens from an account without
\* recording a transfer.  (Stated as claimed; a greedy loop that runs out of
\* accounts raises after it has emptied them, and records nothing.)
C18_Conservation ==
    [][tokens(accounts') + PlanSum(steps') = tokens(accounts) + PlanSum(steps)]_vars

\* C19: the accounts a greedy step draws from come in descending order of
\* the balance they hold when the step starts.  (Stated as claimed; the loop
\* follows the order of wallet.accounts, which earlier steps leave unsorted.)
C19_GreedyDescending ==
    (InGreedy /\ lastStep.result = "ok") =>
        \A t, u \in 1 .. Len(lastStep.ret) :
            t < u => lastStep.ret[t].src.tokens >= lastStep.ret[u].src.tokens

\* position in the ledger of the account a transfer was taken from
PositionOf(accs, transfer) == CHOOSE k \in 1 .. Len(accs) : accs[k].addr = transfer.src.addr

\* C19, amended: the accounts a greedy step draws from come in the order of
\* wallet.accounts, and in descending order of balance when the ledger is
\* still sorted by balance at the start of the step.
C19_LedgerOrder ==
    (InGreedy /\ lastStep.result = "ok") =>
        \A t, u \in 1 .. Len(lastStep.ret) :
            t < u =>
               /\ PositionOf(lastStep.pre, lastStep.ret[t]) < PositionOf(lastStep.pre, lastStep.ret[u])
               /\ SortedDesc(lastStep.pre) =>
                     lastStep.ret[t].src.tokens >= lastStep.ret[u].src.tokens

\* a greedy step of the second request that drew from two accounts of a
\* ledger the first request left unsorted
C19_Witness ==
    /\ InGreedy
    /\ lastStep.result = "ok"
    /\ Len(steps) = 2
    /\ Len(lastStep.ret) >= 2
    /\ ~SortedDesc(lastStep.pre)
    /\ lastStep.ret[1].src.tokens < lastStep.ret[2].src.tokens

\* refresh_accounts is running or has raised, or was never called
NothingReturned == refresh.state \in {"idle", "running", "raised"}

\* the accounts of seq are those fetched for the submitted addresses, one each
OnePerAddress(seq) ==
    /\ Len(seq) = Len(pool)
    /\ \A k \in 1 .. Len(pool) :
         Cardinality({ j \in 1 .. Len(seq) : seq[j] = pool[k].account }) = 1
    /\ \A k \in 1 .. Len(pool) :
         Cardinality({ j \in 1 .. Len(seq) : seq[j].addr = pool[k].addr }) = 1

\* C13: refresh_accounts makes at most CONCURRENT_MAX_RETRIES attempts for an
\* address; once the call for some address has raised, the refresh never
\* returns a list and no list becomes the wallet's accounts; and a refresh
\* that returns, returns exactly one Account for each requested address.
C13_AllOrNothing ==
    /\ \A k \in 1 .. Len(pool) : pool[k].attempts <= CONCURRENT_MAX_RETRIES
    /\ (\E k \in 1 .. Len(pool) : pool[k].status = "raised") =>
           /\ NothingReturned
           /\ refresh.ret = << >>
           /\ accounts = << >>
    /\ refresh.state = "returned" =>
           /\ all_done(pool)
           /\ OnePerAddress(refresh.ret)
           /\ accounts = refresh.ret

\* the refresh has failed because one address used up its attempts, after
\* the balances of another address had been fetched
C13_Witness ==
    /\ refresh.state = "raised"
    /\ \E k \in 1 .. Len(pool) :
         /\ pool[k].status = "raised"
         /\ pool[k].retries = CONCURRENT_MAX_RETRIES
         /\ pool[k].attempts = CONCURRENT_MAX_RETRIES
    /\ \E j \in 1 .. Len(pool) : pool[j].status = "done" /\ pool[j].account.tokens > 0
    /\ accounts = << >>

\* C15: the list refresh_accounts returns is sorted by tokens, descending,
\* and it is built from the results of all the calls: while some call has
\* not returned, no list, sorted or not, has been returned or assigned to
\* the wallet, whatever the order in which the workers finish.
C15_SortedAfterJoin ==
    /\ refresh.state = "returned" =>
           /\ SortedDesc(refresh.ret)
           /\ all_done(pool)
           /\ OnePerAddress(refresh.ret)
           /\ accounts = refresh.ret
    /\ NothingReturned => refresh.ret = << >> /\ accounts = << >>

\* a refresh has returned whose workers finished out of submission order
\* and fetched a larger balance for a later address
C15_Witness ==
    /\ refresh.state = "returned"
    /\ refresh.outOfOrder
    /\ \E j, k \in 1 .. Len(pool) :
         /\ j < k
         /\ pool[j].account.tokens < pool[k].account.tokens
    /\ SortedDesc(refresh.ret)

\* the addresses of the under-funded sources of the plan
UnderFundedAddrs == { accounts[k].addr : k \in UnderFunded }

\* C12: when seed_payout_fees returns, the returned list holds, for every
\* under-funded source of the plan, exactly one result recorded for the
\* address of that source, whether its transfer was sent or failed.
\* (Stated as claimed; seed returns None for a failure, which names no
\* address.)
C12_FailureRecorded ==
    seedCall.result = "ok" =>
        \A a \in UnderFundedAddrs :
            Cardinality({ j \in 1 .. Len(seed_returned) : seed_returned[j].addr = a }) = 1

\* a failing seed(acc) aborts nothing: while seed_payout_fees runs, a call
\* is running, or the next one can start, or all have returned; and the
\* list that is returned has one entry for each entry of
\* accounts_need_seeding, in that order
C12_BatchNotAborted ==
    /\ seedCall.result = "running" =>
          \/ Running(pool) # {}
          \/ \E k \in 1 .. Len(pool) : may_start(pool, k)
          \/ \A k \in 1 .. Len(pool) : Seeded(pool[k])
    /\ seedCall.result = "ok" =>
          /\ Len(seed_returned) = Len(seedCall.need)
          /\ \A k \in 1 .. Len(seedCall.need) :
                /\ seedCall.sent[k].addr = seedCall.need[k].addr
                /\ seed_returned[k] \in {None, [addr |-> seedCall.need[k].addr, ok |-> TRUE]}

\* a seeding has returned in which one transfer failed and a later one was sent
C12_FailedThenSent ==
    /\ seedCall.result = "ok"
    /\ \E j, k \in 1 .. Len(seedCall.sent) :
          /\ j < k
          /\ ~seedCall.sent[j].ok
          /\ seedCall.sent[k].ok

\* a planner is inside generate_steps
Planning == pc = "generate_steps"
OtherPlanning == other.pc \in {"generate_steps", "matched"}

\* the tokens the transfers of both plans take from the account at addr
Allocated(addr) ==
    LET mine == SelectSeq(Flatten(steps), LAMBDA t : t.src.addr = addr)
        theirs == SelectSeq(Flatten(other.steps), LAMBDA t : t.src.addr = addr)
    IN SumSeq(Amounts_of(mine)) + SumSeq(Amounts_of(theirs))

\* C14: two PayoutStrategy instances built on one wallet are never both
\* inside generate_steps, and no account balance of the wallet is negative.
\* (Stated as claimed; the code takes no lock and copies no ledger.)
C14_MutualExclusion ==
    /\ ~(Planning /\ OtherPlanning)
    /\ \A k \in 1 .. Len(accounts) : accounts[k].tokens >= 0

\* the second half of C14 alone: no balance below zero
C14_NoNegativeBalance ==
    \A k \in 1 .. Len(accounts) : accounts[k].tokens >= 0

\* the second half of C14 alone: the transfers of the two plans never take
\* more from an account than the balance the first transfer from it saw
C14_NoDoubleAllocation ==
    \A k \in 1 .. Len(accounts) :
        LET all == Flatten(steps) \o Flatten(other.steps)
            seen == { all[t].src.tokens : t \in { u \in 1 .. Len(all) :
                                                   all[u].src.addr = accounts[k].addr } }
        IN seen # {} => \E m \in seen : Allocated(accounts[k].addr) <= m
====
